---------------------------- MODULE Spec2Model ----------------------------
(***************************************************************************)
(* A model of moore_hodgson (src/src/lib.rs), the in-place scheduling      *)
(* routine of the crate.  The slice `items` is a function from the         *)
(* 0-based indices 0..len-1 to jobs <<payload, due_time, processing_time>>;*)
(* the rust tuple fields .0, .1, .2 are the tuple positions 1, 2, 3.       *)
(* One call of the function is one behaviour: the program counter `pc`     *)
(* walks through the loop test, the minimum scan, the move and the return. *)
(***************************************************************************)
EXTENDS Integers, Sequences, FiniteSets, TLC

\* ---------------------------------------------------------------- bounds
\* longest generated input slice
MaxLen == 3
\* largest generated due time
MaxDue == 2
\* largest generated processing time
MaxProc == 2

\* ---------------------------------------------------------------- values
\* f32::NAN as a due time: the one value that compares with nothing.
NaN == -1

\* The generated due times and processing times.
Dues == (0..MaxDue) \cup {NaN}
Procs == 0..MaxProc

\* The payloads of the crate's documented example, named by their position
\* in the documented array.
ApplyForJob == 0
FileTaxes == 1
BuyPresentForMom == 2
SolveUrgentProblem == 3
ApplyForLoan == 4

\* The input of the crate documentation's example.
DocExample ==
    [k \in 0..4 |->
        <<k, <<6, 7, 4, 6, 8>>[k + 1], <<5, 1, 1, 4, 3>>[k + 1]>>]

\* D: PartialOrd, `a < b` on due times: false when either side is NaN.
Lt(a, b) == a # NaN /\ b # NaN /\ a < b

\* Faulty variant of Le: `<` in place of `<=`.
LeStrict(p, d) == d # NaN /\ p < d

\* P: PartialOrd<D>, `p <= d`: false when the due time is NaN.
Le(p, d) == d # NaN /\ p <= d

\* P::default()
DefaultP == 0

\* `items.len()`
SliceLen(its) == Cardinality(DOMAIN its)

\* ------------------------------------------------------- steps of the code
\* Faulty variant of Swap: the job at a is overwritten and not kept.
SwapLost(its, a, b) == [its EXCEPT ![a] = its[b]]

\* `items.swap(a, b)`
Swap(its, a, b) == [its EXCEPT ![a] = its[b], ![b] = its[a]]

\* Faulty variant of EndTime: the completion time so far is left out.
EndTimeAlone(ct, p) == p

\* `completion_time.clone() + min_processing_time.clone()`
EndTime(ct, p) == ct + p

\* Faulty variant of OnTime: `!(end_time > due)`, true of a NaN due time.
OnTimeNotGreater(end, due) == ~(due # NaN /\ end > due)

\* `end_time <= min_due_time.clone()`
OnTime(end, due) == Le(end, due)

\* Faulty variants of ScanUpdate: the comparison turned round (the latest
\* due time wins), and `!(min < due)` in place of `due < min` (ties and
\* NaN replace the minimum).
ScanUpdateLatest(its, k, m) == IF Lt(its[m][2], its[k][2]) THEN k ELSE m
ScanUpdateNotLess(its, k, m) == IF ~Lt(its[m][2], its[k][2]) THEN k ELSE m

\* One pass of the body of the for loop: the minimum index after looking at
\* index k, m being the minimum index before.
ScanUpdate(its, k, m) == IF Lt(its[k][2], its[m][2]) THEN k ELSE m

\* The whole for loop from index k on: the index of the minimum job of
\* k..(l - 1), m being the minimum index so far.
RECURSIVE Scan(_, _, _, _)
Scan(its, k, l, m) ==
    IF k >= l THEN m ELSE Scan(its, k + 1, l, ScanUpdate(its, k, m))

\* The while loop from its test on: <<the final slice, the returned count>>.
RECURSIVE Loop(_, _, _, _)
Loop(its, e, l, ct) ==
    IF e = l
    THEN <<its, e>>
    ELSE LET m == Scan(its, e + 1, l, e)
             end_time == EndTime(ct, its[m][3])
         IN  IF OnTime(end_time, its[m][2])
             THEN Loop(Swap(its, m, e), e + 1, l, end_time)
             ELSE Loop(Swap(its, m, l - 1), e, l - 1, ct)

\* The function as a whole: <<the final slice, the returned count>>.
moore_hodgson(its) == Loop(its, 0, SliceLen(its), DefaultP)

VARIABLES
    items,                \* the slice
    on_time_items_end,
    late_items_start,
    completion_time,
    min_index,
    min_due_time,
    min_processing_time,
    i,                    \* the for loop's index
    pc,                   \* "while", "scan", "done" or "panic"
    result,               \* the returned count (-1 before the return)
    input,                \* the slice as it was given (history)
    accepted,             \* the jobs accepted, in acceptance order (history)
    evicted,              \* the jobs evicted, in eviction order (history)
    iterations            \* completed iterations of the while loop (history)

vars == <<items, on_time_items_end, late_items_start, completion_time,
          min_index, min_due_time, min_processing_time, i, pc, result,
          input, accepted, evicted, iterations>>

\* A generated input: a slice of n jobs with the due times d and the
\* processing times p, each job's payload being its position in the input.
Input(n, d, p) == [k \in 0..(n - 1) |-> <<k, d[k], p[k]>>]

Init ==
    /\ \/ \E n \in 0..MaxLen :
              \E d \in [0..(n - 1) -> Dues], p \in [0..(n - 1) -> Procs] :
                  items = Input(n, d, p)
       \/ items = DocExample
    /\ input = items
    /\ on_time_items_end = 0
    /\ late_items_start = SliceLen(items)
    /\ completion_time = DefaultP
    /\ min_index = 0
    /\ min_due_time = NaN
    /\ min_processing_time = DefaultP
    /\ i = 0
    /\ pc = "while"
    /\ result = -1
    /\ accepted = <<>>
    /\ evicted = <<>>
    /\ iterations = 0

\* The loop test succeeds and the scan starts at the first unresolved job.
Enter ==
    /\ pc = "while"
    /\ on_time_items_end # late_items_start
    /\ IF on_time_items_end \in DOMAIN items
       THEN /\ min_index' = on_time_items_end
            /\ min_due_time' = items[on_time_items_end][2]
            /\ min_processing_time' = items[on_time_items_end][3]
            /\ i' = on_time_items_end + 1
            /\ pc' = "scan"
       ELSE /\ pc' = "panic"
            /\ UNCHANGED <<min_index, min_due_time, min_processing_time, i>>
    /\ UNCHANGED <<items, on_time_items_end, late_items_start,
                   completion_time, result, input, accepted, evicted,
                   iterations>>

\* One pass of the for loop over (on_time_items_end + 1)..late_items_start.
ScanStep ==
    /\ pc = "scan"
    /\ i < late_items_start
    /\ IF i \in DOMAIN items
       THEN /\ min_index' = ScanUpdate(items, i, min_index)
            /\ min_due_time' = items[min_index'][2]
            /\ min_processing_time' = items[min_index'][3]
            /\ i' = i + 1
            /\ pc' = "scan"
       ELSE /\ pc' = "panic"
            /\ UNCHANGED <<min_index, min_due_time, min_processing_time, i>>
    /\ UNCHANGED <<items, on_time_items_end, late_items_start,
                   completion_time, result, input, accepted, evicted,
                   iterations>>

\* Faulty variant of Accept: `on_time_items_end += 1` is forgotten.
AcceptNoAdvance ==
    /\ pc = "scan"
    /\ i >= late_items_start
    /\ LET end_time == EndTime(completion_time, min_processing_time) IN
       /\ OnTime(end_time, min_due_time)
       /\ IF min_index \in DOMAIN items /\ on_time_items_end \in DOMAIN items
          THEN /\ items' = Swap(items, min_index, on_time_items_end)
               /\ completion_time' = end_time
               /\ accepted' = Append(accepted, items[min_index])
               /\ iterations' = iterations + 1
               /\ pc' = "while"
          ELSE /\ pc' = "panic"
               /\ UNCHANGED <<items, completion_time, accepted, iterations>>
    /\ UNCHANGED <<on_time_items_end, late_items_start, min_index,
                   min_due_time, min_processing_time, i, result, input,
                   evicted>>

\* The scan is over and the minimum job ends no later than it is due.
Accept ==
    /\ pc = "scan"
    /\ i >= late_items_start
    /\ LET end_time == EndTime(completion_time, min_processing_time) IN
       /\ OnTime(end_time, min_due_time)
       /\ IF min_index \in DOMAIN items /\ on_time_items_end \in DOMAIN items
          THEN /\ items' = Swap(items, min_index, on_time_items_end)
               /\ on_time_items_end' = on_time_items_end + 1
               /\ completion_time' = end_time
               /\ accepted' = Append(accepted, items[min_index])
               /\ iterations' = iterations + 1
               /\ pc' = "while"
          ELSE /\ pc' = "panic"
               /\ UNCHANGED <<items, on_time_items_end, completion_time,
                              accepted, iterations>>
    /\ UNCHANGED <<late_items_start, min_index, min_due_time,
                   min_processing_time, i, result, input, evicted>>

\* Faulty variant of Evict: the swap is made before `late_items_start -= 1`.
EvictSwapFirst ==
    /\ pc = "scan"
    /\ i >= late_items_start
    /\ LET end_time == EndTime(completion_time, min_processing_time) IN
       ~OnTime(end_time, min_due_time)
    /\ IF /\ late_items_start >= 1
          /\ min_index \in DOMAIN items
          /\ late_items_start \in DOMAIN items
       THEN /\ items' = Swap(items, min_index, late_items_start)
            /\ late_items_start' = late_items_start - 1
            /\ evicted' = Append(evicted, items[min_index])
            /\ iterations' = iterations + 1
            /\ pc' = "while"
       ELSE /\ pc' = "panic"
            /\ UNCHANGED <<items, late_items_start, evicted, iterations>>
    /\ UNCHANGED <<on_time_items_end, completion_time, min_index,
                   min_due_time, min_processing_time, i, result, input,
                   accepted>>

\* The scan is over and the minimum job would end after it is due, or its
\* due time compares with nothing.
Evict ==
    /\ pc = "scan"
    /\ i >= late_items_start
    /\ LET end_time == EndTime(completion_time, min_processing_time) IN
       ~OnTime(end_time, min_due_time)
    /\ IF /\ late_items_start >= 1
          /\ min_index \in DOMAIN items
          /\ (late_items_start - 1) \in DOMAIN items
       THEN /\ late_items_start' = late_items_start - 1
            /\ items' = Swap(items, min_index, late_items_start')
            /\ evicted' = Append(evicted, items[min_index])
            /\ iterations' = iterations + 1
            /\ pc' = "while"
       ELSE /\ pc' = "panic"
            /\ UNCHANGED <<items, late_items_start, evicted, iterations>>
    /\ UNCHANGED <<on_time_items_end, completion_time, min_index,
                   min_due_time, min_processing_time, i, result, input,
                   accepted>>

\* The loop test fails and the function returns on_time_items_end.
Return ==
    /\ pc = "while"
    /\ on_time_items_end = late_items_start
    /\ result' = on_time_items_end
    /\ pc' = "done"
    /\ UNCHANGED <<items, on_time_items_end, late_items_start,
                   completion_time, min_index, min_due_time,
                   min_processing_time, i, input, accepted, evicted,
                   iterations>>

Next == Enter \/ ScanStep \/ Accept \/ Evict \/ Return

Spec == Init /\ [][Next]_vars

\* The call runs to completion: nothing suspends or preempts it.
FairSpec == Spec /\ WF_vars(Next)

\* ------------------------------------------------ vocabulary of the claims
\* the jobs of slice its at the indices of S, as a set
JobsAt(its, S) == { its[k] : k \in S }

\* how many indices of S hold job x in slice its
CountAt(its, S, x) == Cardinality({ k \in S : its[k] = x })

\* the same multiset of jobs at the indices S of a and the indices T of b
SameBag(a, S, b, T) ==
    \A x \in JobsAt(a, S) \cup JobsAt(b, T) : CountAt(a, S, x) = CountAt(b, T, x)

\* the sequence (1-based) s as a slice (0-based)
AsSlice(s) == [k \in 0..(Len(s) - 1) |-> s[k + 1]]

\* the sum, from P::default() on, of the processing times at 0..k of its
RECURSIVE PrefixSum(_, _)
PrefixSum(its, k) ==
    IF k < 0 THEN DefaultP ELSE PrefixSum(its, k - 1) + its[k][3]

\* every due time of the slice compares with every other
TotallyOrdered(its) == \A k \in DOMAIN its : its[k][2] # NaN

\* no due time of the slice compares with any
AllIncomparable(its) == \A k \in DOMAIN its : its[k][2] = NaN

\* totally ordered and pairwise distinct due times
DistinctDues(its) ==
    /\ TotallyOrdered(its)
    /\ \A a, b \in DOMAIN its : a # b => its[a][2] # its[b][2]

\* slice its read in the order sigma
Reordered(its, sigma) == [k \in DOMAIN its |-> its[sigma[k]]]

\* The jobs of its at the indices S can be run back to back from time zero,
\* in some order, each ending no later than it is due.
Schedulable(its, S) ==
    \E ord \in [0..(Cardinality(S) - 1) -> S] :
        /\ \A a, b \in DOMAIN ord : a # b => ord[a] # ord[b]
        /\ LET run == [k \in DOMAIN ord |-> its[ord[k]]] IN
           \A k \in DOMAIN run : Le(PrefixSum(run, k), run[k][2])

\* the size of the largest schedulable set of jobs of its
MaxOnTime(its) ==
    CHOOSE n \in 0..SliceLen(its) :
        /\ \E S \in SUBSET DOMAIN its : Cardinality(S) = n /\ Schedulable(its, S)
        /\ \A S \in SUBSET DOMAIN its : Schedulable(its, S) => Cardinality(S) <= n

\* ------------------------------------------------------------------ claims
\* C1: for every input with totally ordered due times (and processing times
\* that are not negative) the returned count is the size of the largest set
\* of jobs that can be run back to back from time zero with every job of the
\* set ending no later than it is due.
C1_Optimal ==
    (pc = "done" /\ TotallyOrdered(input)) => result = MaxOnTime(input)

\* C2: the slice always holds the multiset of jobs it was given, on the same
\* indices, and every step changes it at most by swapping two whole jobs.
C2_PermutationOnly ==
    /\ [](DOMAIN items = DOMAIN input
          /\ SameBag(items, DOMAIN items, input, DOMAIN input))
    /\ [][items' = items
          \/ \E a, b \in DOMAIN items : items' = Swap(items, a, b)]_vars

C2_Witness ==
    /\ pc = "done"
    /\ SliceLen(input) >= 3
    /\ result \in 1..(SliceLen(input) - 1)
    /\ \A k \in DOMAIN items : items[k] # input[k]

\* C3: on return, with k the returned count, for every index below k the sum
\* of the processing times at the indices up to and including it is less
\* than or equal to the due time at that index.
C3_OnTimeFeasible ==
    pc = "done" =>
        \A k \in 0..(result - 1) : Le(PrefixSum(items, k), items[k][2])

C3_Witness ==
    /\ pc = "done"
    /\ result >= 2
    /\ result < SliceLen(input)
    /\ PrefixSum(items, result - 1) = items[result - 1][2]
    /\ items[0][3] > 0

\* C4: a job whose due time is NaN is never in the on-time prefix and never
\* accepted, it ends at an index at or after the returned count, it is
\* evicted before the return, and when it is evicted it is put at index
\* late_items_start - 1, the first slot of the late region from then on.
C4_IncomparableNeverOnTime ==
    /\ \A k \in 0..(on_time_items_end - 1) : items[k][2] # NaN
    /\ \A k \in 1..Len(accepted) : accepted[k][2] # NaN
    /\ (evicted # <<>> /\ evicted[Len(evicted)][2] = NaN) =>
           /\ late_items_start \in DOMAIN items
           /\ items[late_items_start] = evicted[Len(evicted)]
           /\ late_items_start = SliceLen(items) - Len(evicted)
    /\ pc = "done" =>
           \A k \in DOMAIN items :
               items[k][2] = NaN =>
                   /\ k >= result
                   /\ \E e \in 1..Len(evicted) : evicted[e] = items[k]

C4_Witness ==
    /\ pc = "done"
    /\ SliceLen(input) >= 3
    /\ input[1][2] = NaN
    /\ input[0][2] # NaN
    /\ input[2][2] # NaN
    /\ result = 2

\* C5: when the due times of the input are totally ordered and pairwise
\* distinct, the call on any other ordering of the same jobs returns the
\* same count and leaves the same final slice, whose on-time prefix is in
\* ascending and whose late suffix is in descending order of due time.
C5_OrderIndependentDistinct ==
    (pc = "done" /\ DistinctDues(input)) =>
        /\ \A sigma \in Permutations(DOMAIN input) :
               moore_hodgson(Reordered(input, sigma)) = <<items, result>>
        /\ \A a, b \in 0..(result - 1) : a < b => items[a][2] < items[b][2]
        /\ \A a, b \in result..(SliceLen(items) - 1) :
               a < b => items[a][2] > items[b][2]

C5_Witness ==
    /\ pc = "done"
    /\ DistinctDues(input)
    /\ SliceLen(input) >= 3
    /\ result >= 1
    /\ SliceLen(input) - result >= 2
    /\ input[0][2] > input[1][2]

\* C6 as claimed: on the documented example the call returns 3 and the
\* on-time prefix is BuyPresentForMom (4,1), ApplyForJob (6,5),
\* ApplyForLoan (8,3).
C6_DocExampleAsClaimed ==
    (pc = "done" /\ input = DocExample) =>
        /\ result = 3
        /\ items[0] = <<BuyPresentForMom, 4, 1>>
        /\ items[1] = <<ApplyForJob, 6, 5>>
        /\ items[2] = <<ApplyForLoan, 8, 3>>

\* C6 as amended: on the documented example the call returns 3 and the
\* final slice is BuyPresentForMom (4,1), ApplyForJob (6,5), FileTaxes
\* (7,1), then the late jobs ApplyForLoan (8,3), SolveUrgentProblem (6,4).
C6_DocExample ==
    (pc = "done" /\ input = DocExample) =>
        /\ result = 3
        /\ items[0] = <<BuyPresentForMom, 4, 1>>
        /\ items[1] = <<ApplyForJob, 6, 5>>
        /\ items[2] = <<FileTaxes, 7, 1>>
        /\ items[3] = <<ApplyForLoan, 8, 3>>
        /\ items[4] = <<SolveUrgentProblem, 6, 4>>

C6_Witness == pc = "done" /\ input = DocExample /\ completion_time = 7

\* C7: no step fails; 0 <= on_time_items_end <= late_items_start <= len;
\* at every iteration boundary the indices below on_time_items_end hold the
\* accepted jobs in acceptance order, the indices from late_items_start on
\* hold exactly the evicted jobs, and completion_time is the sum of the
\* accepted processing times; during the scan and at the move min_index and
\* the loop index stay inside the unresolved region; the returned count is
\* within 0..len.
C7_BoundaryInvariant ==
    /\ pc # "panic"
    /\ 0 <= on_time_items_end
    /\ on_time_items_end <= late_items_start
    /\ late_items_start <= SliceLen(items)
    /\ pc \in {"while", "done"} =>
           /\ Len(accepted) = on_time_items_end
           /\ \A k \in 0..(on_time_items_end - 1) : items[k] = accepted[k + 1]
           /\ Len(evicted) = SliceLen(items) - late_items_start
           /\ SameBag(items, late_items_start..(SliceLen(items) - 1),
                      AsSlice(evicted), 0..(Len(evicted) - 1))
           /\ completion_time =
                  PrefixSum(AsSlice(accepted), Len(accepted) - 1)
    /\ pc = "scan" =>
           /\ on_time_items_end < late_items_start
           /\ min_index \in on_time_items_end..(late_items_start - 1)
           /\ min_index < i
           /\ i \in (on_time_items_end + 1)..late_items_start
           /\ min_due_time = items[min_index][2]
           /\ min_processing_time = items[min_index][3]
    /\ pc = "done" => result \in 0..SliceLen(input)

C7_Witness ==
    /\ pc = "scan"
    /\ i = late_items_start
    /\ late_items_start = 1
    /\ on_time_items_end = 0
    /\ Len(evicted) = 2
    /\ ~OnTime(EndTime(completion_time, min_processing_time), min_due_time)

\* C8: every pass of the loop body either adds one to on_time_items_end or
\* takes one from late_items_start, never both and never neither, no other
\* step changes either, the call returns after exactly len passes, and it
\* does return.
C8_Termination ==
    /\ [][IF pc = "scan" /\ pc' # "scan"
          THEN /\ iterations' = iterations + 1
               /\ \/ /\ on_time_items_end' = on_time_items_end + 1
                     /\ late_items_start' = late_items_start
                  \/ /\ on_time_items_end' = on_time_items_end
                     /\ late_items_start' = late_items_start - 1
          ELSE /\ iterations' = iterations
               /\ on_time_items_end' = on_time_items_end
               /\ late_items_start' = late_items_start]_vars
    /\ [](iterations + (late_items_start - on_time_items_end)
              = SliceLen(input))
    /\ [](pc = "done" =>
              /\ iterations = SliceLen(input)
              /\ on_time_items_end = late_items_start)
    /\ <>(pc = "done")

C8_Witness ==
    /\ pc = "done"
    /\ iterations = 3
    /\ Len(accepted) = 2
    /\ Len(evicted) = 1

\* the empty input returns with no pass of the loop
C8_WitnessEmpty == pc = "done" /\ iterations = 0 /\ input = <<>>

\* C9 as claimed: when no due time of the input compares with any, the
\* returned count is 0, the jobs are evicted in their original left-to-right
\* order, and the final slice is the input reversed.
C9_AllIncomparableReversed ==
    (pc = "done" /\ AllIncomparable(input)) =>
        /\ result = 0
        /\ evicted = [k \in 1..SliceLen(input) |-> input[k - 1]]
        /\ items = [k \in DOMAIN input |-> input[SliceLen(input) - 1 - k]]

\* C9 as amended: when no due time of the input compares with any, the
\* returned count is 0, every pass evicts the job at index 0, so that the
\* first job of the input is evicted first and the others after it from the
\* last to the second, and the final slice is the input rotated left by
\* one: the second to the last job in their original order, then the first.
C9_AllIncomparableRotated ==
    (pc = "done" /\ AllIncomparable(input)) =>
        LET n == SliceLen(input) IN
        /\ result = 0
        /\ evicted = [k \in 1..n |-> IF k = 1 THEN input[0] ELSE input[n + 1 - k]]
        /\ items = [k \in DOMAIN input |-> input[(k + 1) % n]]

C9_Witness ==
    /\ pc = "done"
    /\ AllIncomparable(input)
    /\ SliceLen(input) >= 3
    /\ input[0][3] # input[1][3]

\* C10: for every input with totally ordered due times (and processing
\* times that are not negative), equal due times included, the call on any
\* other ordering of the same jobs returns the same count.
C10_CountOrderIndependent ==
    (pc = "done" /\ TotallyOrdered(input)) =>
        \A sigma \in Permutations(DOMAIN input) :
            moore_hodgson(Reordered(input, sigma))[2] = result

=============================================================================
